---- MODULE Spec2Model ----
(***************************************************************************)
(* Model of streamlitapp.py: one run of the dashboard script over one      *)
(* uploaded CSV file.  normalize_column_name, clean_data and               *)
(* get_gemini_insight are modelled step by step, together with the         *)
(* module-level upload handling and the five chart sections.               *)
(*                                                                         *)
(* A text is a sequence of one-character strings.  A CSV cell is the text  *)
(* token of the cell as a string; "" is an empty cell (pandas' NaN).       *)
(***************************************************************************)
EXTENDS Integers, Sequences, FiniteSets, TLC

VARIABLES
    key,            \* GEMINI_API_KEY, the configured credential
    uploaded_file,  \* the file handed over by st.file_uploader
    pc,             \* position of the script
    df,             \* the data frame (None before and after a failure)
    original_rows,  \* clean_data's original_rows
    errors,         \* st.error outputs: sequence of messages
    warnings,       \* st.warning outputs: dropped-row counts reported
    cur,            \* number of the chart section being run (0: none)
    views,          \* summary view of each chart section
    computed,       \* chart sections whose summary view is computed
    rendered,       \* chart sections whose chart went to st.plotly_chart
    insights,       \* insight text returned for each chart section
    requested,      \* chart sections whose get_gemini_insight call started
    resolved,       \* chart sections whose get_gemini_insight call returned
    exchanges,      \* outbound requests.post calls made for each section
    inflight,       \* section whose exchange is in flight (0: none)
    nm_in,          \* a column name handed to normalize_column_name
    nm_out,         \* results of successive normalize_column_name calls
    nm_calls        \* calls of normalize_column_name made on nm_in

vars == <<key, uploaded_file, pc, df, original_rows, errors, warnings, cur,
          views, computed, rendered, insights, requested, resolved,
          exchanges, inflight, nm_in, nm_out, nm_calls>>

pipeVars == <<key, uploaded_file, pc, df, original_rows, errors, warnings,
              cur, views, computed, rendered, insights, requested, resolved,
              exchanges, inflight>>

normVars == <<nm_in, nm_out, nm_calls>>

(***************************************************************************)
(* Bounds of the model.                                                    *)
(***************************************************************************)
MaxRows == 3
MaxNameLen == 3
NLocs == 6

(***************************************************************************)
(* Helpers on sequences.                                                   *)
(***************************************************************************)
Range(s) == {s[i] : i \in 1..Len(s)}

RECURSIVE SeqsUpTo(_, _)
SeqsUpTo(S, n) ==
    IF n = 0 THEN {<<>>}
    ELSE LET shorter == SeqsUpTo(S, n - 1)
         IN  shorter \cup {Append(s, x) : s \in {t \in shorter : Len(t) = n - 1}, x \in S}

RECURSIVE FilterSeq(_, _)
FilterSeq(s, keep) ==
    IF s = <<>> THEN <<>>
    ELSE IF Head(s) \in keep THEN <<Head(s)>> \o FilterSeq(Tail(s), keep)
         ELSE FilterSeq(Tail(s), keep)

(***************************************************************************)
(* normalize_column_name: name.lower() and then the removal of ' ', '-'    *)
(* and '_'.                                                                *)
(***************************************************************************)
UpperAZ == <<"A","B","C","D","E","F","G","H","I","J","K","L","M",
             "N","O","P","Q","R","S","T","U","V","W","X","Y","Z">>
LowerAZ == <<"a","b","c","d","e","f","g","h","i","j","k","l","m",
             "n","o","p","q","r","s","t","u","v","w","x","y","z">>

\* U+03D2, GREEK UPSILON WITH HOOK SYMBOL: general category Lu (an uppercase
\* letter) with no lowercase mapping, so str.lower() leaves it as it is.
UpsilonHook == "U+03D2"

\* str.isupper() of one character.
IsUpperChar(c) == c \in Range(UpperAZ) \cup {UpsilonHook}

LowerCharKeep(c) == c

\* str.lower() of one character.
LowerChar(c) ==
    IF \E i \in 1..Len(UpperAZ) : UpperAZ[i] = c
    THEN LowerAZ[CHOOSE i \in 1..Len(UpperAZ) : UpperAZ[i] = c]
    ELSE c

\* str.lower()
Lower(name) == [i \in 1..Len(name) |-> LowerChar(name[i])]

\* str.replace(ch, '')
RECURSIVE Remove(_, _)
Remove(name, ch) ==
    IF name = <<>> THEN <<>>
    ELSE IF Head(name) = ch THEN Remove(Tail(name), ch)
         ELSE <<Head(name)>> \o Remove(Tail(name), ch)

normalize_column_name(name) ==
    Remove(Remove(Remove(Lower(name), " "), "-"), "_")

(***************************************************************************)
(* Column names.                                                           *)
(***************************************************************************)
c_date == <<"d","a","t","e">>
c_platform == <<"p","l","a","t","f","o","r","m">>
c_sentiment == <<"s","e","n","t","i","m","e","n","t">>
c_location == <<"l","o","c","a","t","i","o","n">>
c_engagements == <<"e","n","g","a","g","e","m","e","n","t","s">>
c_mediatype == <<"m","e","d","i","a","t","y","p","e">>

expected_columns ==
    <<c_date, c_platform, c_sentiment, c_location, c_engagements, c_mediatype>>

\* The header the page asks for: Date, Platform, Sentiment, Location,
\* Engagements, Media Type.
DocHeader ==
    << <<"D","a","t","e">>,
       <<"P","l","a","t","f","o","r","m">>,
       <<"S","e","n","t","i","m","e","n","t">>,
       <<"L","o","c","a","t","i","o","n">>,
       <<"E","n","g","a","g","e","m","e","n","t","s">>,
       <<"M","e","d","i","a"," ","T","y","p","e">> >>

\* The same columns spelled date, PLATFORM, sentiment, Location,
\* engagements, media_type / MEDIA-TYPE.
AltHeader(mt) ==
    << <<"d","a","t","e">>,
       <<"P","L","A","T","F","O","R","M">>,
       <<"s","e","n","t","i","m","e","n","t">>,
       <<"L","o","c","a","t","i","o","n">>,
       <<"e","n","g","a","g","e","m","e","n","t","s">>,
       mt >>

Headers ==
    {DocHeader,
     AltHeader(<<"m","e","d","i","a","_","t","y","p","e">>),
     AltHeader(<<"M","E","D","I","A","-","T","Y","P","E">>)}

(***************************************************************************)
(* Data frames.  A frame has its column names, its index labels (pandas    *)
(* keeps the labels of the rows that survive dropna) and its rows, each a  *)
(* sequence of cells aligned with the columns.                             *)
(***************************************************************************)
None == [none |-> TRUE]

Frame(columns, index, data) ==
    [none |-> FALSE, columns |-> columns, index |-> index, data |-> data]

\* pd.read_csv of a well-formed file: a RangeIndex 0..n-1 over the rows.
read_csv(file) ==
    Frame(file.columns, [i \in 1..Len(file.data) |-> i - 1], file.data)

\* Position of column `name` (df[name]).
ColPos(frame, name) ==
    CHOOSE i \in 1..Len(frame.columns) : frame.columns[i] = name

\* df[name] as a sequence of cells, one per row.
Column(frame, name) ==
    [i \in 1..Len(frame.data) |-> frame.data[i][ColPos(frame, name)]]

\* df.empty
IsEmpty(frame) == Len(frame.columns) = 0 \/ Len(frame.data) = 0

(***************************************************************************)
(* pd.to_datetime(errors='coerce') on the date tokens of the model: a      *)
(* timestamp, in hours since 2024-01-01 00:00, or NaT.                     *)
(***************************************************************************)
DateLiterals ==
    { [text |-> "2024-01-01", hours |-> 0],
      [text |-> "2024-01-01 12:00", hours |-> 12],
      [text |-> "2024-01-03", hours |-> 48] }

NaT == [valid |-> FALSE, hours |-> 0]

to_datetime_defaulting(cell) ==
    IF \E l \in DateLiterals : l.text = cell
    THEN [valid |-> TRUE, hours |-> (CHOOSE l \in DateLiterals : l.text = cell).hours]
    ELSE [valid |-> TRUE, hours |-> 0]

to_datetime(cell) ==
    IF \E l \in DateLiterals : l.text = cell
    THEN [valid |-> TRUE, hours |-> (CHOOSE l \in DateLiterals : l.text = cell).hours]
    ELSE NaT

(***************************************************************************)
(* pd.to_numeric(errors='coerce') on the number tokens of the model: the   *)
(* number in tenths, or NaN.  Then fillna(0) and astype(int), which        *)
(* truncates towards zero.                                                 *)
(***************************************************************************)
NumericLiterals ==
    { [text |-> "5", tenths |-> 50],
      [text |-> "-3", tenths |-> -30],
      [text |-> "7.9", tenths |-> 79],
      [text |-> "-3.7", tenths |-> -37],
      [text |-> "10", tenths |-> 100],
      [text |-> "30", tenths |-> 300],
      [text |-> "20", tenths |-> 200],
      [text |-> "25", tenths |-> 250],
      [text |-> "1", tenths |-> 10],
      [text |-> "15", tenths |-> 150],
      [text |-> "40", tenths |-> 400] }

NaN == [nan |-> TRUE, tenths |-> 0]

to_numeric(cell) ==
    IF \E l \in NumericLiterals : l.text = cell
    THEN [nan |-> FALSE, tenths |-> (CHOOSE l \in NumericLiterals : l.text = cell).tenths]
    ELSE NaN

fillna0(x) == IF x.nan THEN [nan |-> FALSE, tenths |-> 0] ELSE x

astype_int_floor(x) == x.tenths \div 10

astype_int(x) ==
    IF x.tenths >= 0 THEN x.tenths \div 10 ELSE -((-x.tenths) \div 10)

(***************************************************************************)
(* clean_data                                                              *)
(***************************************************************************)
\* line 47
NormalizeColumns(frame) ==
    [frame EXCEPT !.columns =
        [i \in 1..Len(frame.columns) |-> normalize_column_name(frame.columns[i])]]

missing_columns_first_only(frame) ==
    LET all == FilterSeq(expected_columns,
                         {c \in Range(expected_columns) : c \notin Range(frame.columns)})
    IN  IF all = <<>> THEN <<>> ELSE <<Head(all)>>

\* lines 50-51
missing_columns(frame) ==
    FilterSeq(expected_columns,
              {c \in Range(expected_columns) : c \notin Range(frame.columns)})

\* Positions of the rows whose date converts (the rows dropna keeps).
DatedRows(frame) ==
    LET dates == Column(frame, c_date)
    IN  {i \in 1..Len(frame.data) : to_datetime(dates[i]).valid}

DatesCoercedKeepAll(frame) ==
    LET p == ColPos(frame, c_date)
    IN  [frame EXCEPT !.data =
            [i \in 1..Len(frame.data) |->
                [frame.data[i] EXCEPT ![p] = to_datetime_defaulting(frame.data[i][p]).hours]]]

\* lines 57-58: the date column converted, the rows with NaT dropped.
DatesCoerced(frame) ==
    LET p == ColPos(frame, c_date)
        keep == DatedRows(frame)
        kept == FilterSeq([i \in 1..Len(frame.data) |-> i], keep)
    IN  [frame EXCEPT
            !.index = [j \in 1..Len(kept) |-> frame.index[kept[j]]],
            !.data = [j \in 1..Len(kept) |->
                        [frame.data[kept[j]] EXCEPT
                            ![p] = to_datetime(frame.data[kept[j]][p]).hours]]]

\* line 64
EngagementsCoerced(frame) ==
    LET p == ColPos(frame, c_engagements)
    IN  [frame EXCEPT !.data =
            [i \in 1..Len(frame.data) |->
                [frame.data[i] EXCEPT
                    ![p] = astype_int(fillna0(to_numeric(frame.data[i][p])))]]]

(***************************************************************************)
(* The five summary views.  A view is a sequence of entries                *)
(* [key |-> k, value |-> n].  Rows whose key cell is empty (NaN) belong to *)
(* no group: value_counts and groupby drop them.                           *)
(***************************************************************************)
TopN == 5

RECURSIVE SumCells(_, _)
SumCells(cells, rows) ==
    IF rows = {} THEN 0
    ELSE LET i == CHOOSE j \in rows : TRUE
         IN  cells[i] + SumCells(cells, rows \ {i})

\* df[col].value_counts(): the number of rows of each distinct value.
CountEntries(frame, col) ==
    LET cells == Column(frame, col)
    IN  {[key |-> k, value |-> Cardinality({i \in 1..Len(cells) : cells[i] = k})] :
            k \in Range(cells) \ {""}}

\* df.groupby(col)['engagements'].sum(): the sum of each distinct value's rows.
SumEntries(frame, col) ==
    LET cells == Column(frame, col)
        eng == Column(frame, c_engagements)
    IN  {[key |-> k, value |-> SumCells(eng, {i \in 1..Len(cells) : cells[i] = k})] :
            k \in Range(cells) \ {""}}

\* df.groupby(df['date'].dt.to_period('D'))['engagements'].sum(): keyed by
\* the calendar day of the timestamp.
DayEntries(frame) ==
    LET days == [i \in 1..Len(frame.data) |-> Column(frame, c_date)[i] \div 24]
        eng == Column(frame, c_engagements)
    IN  {[key |-> d, value |-> SumCells(eng, {i \in 1..Len(days) : days[i] = d})] :
            d \in Range(days)}

\* The orders a descending sort by value may give: entries of equal value
\* come in any order (sort_values' default sort is not stable).
RECURSIVE SortsDesc(_)
SortsDesc(S) ==
    IF S = {} THEN {<<>>}
    ELSE UNION { {<<e>> \o t : t \in SortsDesc(S \ {e})} :
                 e \in {x \in S : \A y \in S : y.value <= x.value} }

\* groupby's own order: ascending by key.
RECURSIVE SortAscByKey(_)
SortAscByKey(S) ==
    IF S = {} THEN <<>>
    ELSE LET e == CHOOSE x \in S : \A y \in S : x.key <= y.key
         IN  <<e>> \o SortAscByKey(S \ {e})

\* DataFrame.head(n)
head(s, n) == SubSeq(s, 1, IF Len(s) < n THEN Len(s) ELSE n)

\* line 175
sentiment_counts(frame) == SortsDesc(CountEntries(frame, c_sentiment))

\* lines 204-205
engagement_trend(frame) == {SortAscByKey(DayEntries(frame))}

\* lines 230-231
platform_engagements(frame) == SortsDesc(SumEntries(frame, c_platform))

\* line 255
mediatype_counts(frame) == SortsDesc(CountEntries(frame, c_mediatype))

location_engagements_head4(frame) ==
    {head(s, TopN - 1) : s \in SortsDesc(SumEntries(frame, c_location))}

\* lines 284-285
location_engagements(frame) ==
    {head(s, TopN) : s \in SortsDesc(SumEntries(frame, c_location))}

Sections == 1..5

\* The values the summary view of chart section v may take.
ViewChoices(v, frame) ==
    CASE v = 1 -> sentiment_counts(frame)
      [] v = 2 -> engagement_trend(frame)
      [] v = 3 -> platform_engagements(frame)
      [] v = 4 -> mediatype_counts(frame)
      [] v = 5 -> location_engagements(frame)

(***************************************************************************)
(* get_gemini_insight                                                      *)
(***************************************************************************)
Placeholder == "YOUR_GEMINI_API_KEY"

ConfigWarning ==
    "Gemini API key is not configured. Please set your API key to generate insights."

\* How one exchange ends: a candidate with text, a response without a usable
\* candidate, a requests.exceptions.RequestException (connection, timeout,
\* raise_for_status on a non-2xx status), any other exception.
Outcomes == {"text", "no_candidates", "request_exception", "exception"}

Failures == Outcomes \ {"text"}

\* lines 94-102
InsightText(outcome) ==
    CASE outcome = "text" -> "<generated text>"
      [] outcome = "no_candidates" -> "Could not generate insights for this chart."
      [] outcome = "request_exception" ->
            "Error calling Gemini API: <e>. Check your API key and network."
      [] outcome = "exception" -> "An unexpected error occurred: <e>"

KeyConfiguredNonEmpty(k) == k # ""

\* line 71, negated
KeyConfigured(k) == k # "" /\ k # Placeholder

(***************************************************************************)
(* Uploaded files.                                                         *)
(***************************************************************************)
NoFile == [present |-> FALSE]

\* A file pd.read_csv cannot parse.
Malformed == [present |-> TRUE, malformed |-> TRUE, columns |-> <<>>, data |-> <<>>]

File(columns, data) ==
    [present |-> TRUE, malformed |-> FALSE, columns |-> columns, data |-> data]

\* The file with only the columns at the positions `keep`.
Project(file, keep) ==
    LET pos == FilterSeq([i \in 1..Len(file.columns) |-> i], keep)
    IN  File([j \in 1..Len(pos) |-> file.columns[pos[j]]],
             [r \in 1..Len(file.data) |-> [j \in 1..Len(pos) |-> file.data[r][pos[j]]]])

\* A row in the order of DocHeader.
Row(date, platform, sentiment, location, engagements, mediatype) ==
    <<date, platform, sentiment, location, engagements, mediatype>>

(***************************************************************************)
(* The script, one step per action.                                        *)
(***************************************************************************)
MissingColumnsError(columns) == [kind |-> "missing_columns", columns |-> columns]

ReadOrCleanError == [kind |-> "read_or_clean", columns |-> <<>>]

GuardPassesNonNone(frame) == ~frame.none

\* line 170: df is not None and not df.empty
GuardPasses(frame) == ~frame.none /\ ~IsEmpty(frame)

AfterAggregateSkipRender == "call"

\* lines 175-194: the chart is drawn once the view is computed
AfterAggregate == "render"

RespondTargetRaise(outcome) ==
    IF outcome = "exception" THEN "crashed" ELSE "display"

RespondTargetRetry(outcome) ==
    IF outcome \in Failures THEN "call" ELSE "display"

\* lines 97-102: every way the exchange ends is a return to the caller
RespondTarget(outcome) == "display"

\* lines 157-158
StartNoFile ==
    /\ pc = "start"
    /\ ~uploaded_file.present
    /\ pc' = "guard"
    /\ UNCHANGED <<key, uploaded_file, df, original_rows, errors, warnings, cur,
                   views, computed, rendered, insights, requested, resolved,
                   exchanges, inflight, normVars>>

\* lines 158-159
StartUpload ==
    /\ pc = "start"
    /\ uploaded_file.present
    /\ pc' = "read"
    /\ UNCHANGED <<key, uploaded_file, df, original_rows, errors, warnings, cur,
                   views, computed, rendered, insights, requested, resolved,
                   exchanges, inflight, normVars>>

\* lines 162, 166-168: read_csv raises
ReadCsvFail ==
    /\ pc = "read"
    /\ uploaded_file.malformed
    /\ errors' = Append(errors, ReadOrCleanError)
    /\ df' = None
    /\ pc' = "guard"
    /\ UNCHANGED <<key, uploaded_file, original_rows, warnings, cur,
                   views, computed, rendered, insights, requested, resolved,
                   exchanges, inflight, normVars>>

\* lines 162-163
ReadCsvOk ==
    /\ pc = "read"
    /\ ~uploaded_file.malformed
    /\ df' = read_csv(uploaded_file)
    /\ pc' = "clean"
    /\ UNCHANGED <<key, uploaded_file, original_rows, errors, warnings, cur,
                   views, computed, rendered, insights, requested, resolved,
                   exchanges, inflight, normVars>>

\* lines 36-47
CleanNormalize ==
    /\ pc = "clean"
    /\ original_rows' = Len(df.data)
    /\ df' = NormalizeColumns(df)
    /\ pc' = "schema"
    /\ UNCHANGED <<key, uploaded_file, errors, warnings, cur,
                   views, computed, rendered, insights, requested, resolved,
                   exchanges, inflight, normVars>>

\* lines 50-54: st.error and st.stop
CleanMissing ==
    /\ pc = "schema"
    /\ missing_columns(df) # <<>>
    /\ errors' = Append(errors, MissingColumnsError(missing_columns(df)))
    /\ pc' = "stopped"
    /\ UNCHANGED <<key, uploaded_file, df, original_rows, warnings, cur,
                   views, computed, rendered, insights, requested, resolved,
                   exchanges, inflight, normVars>>

\* lines 50-61
CleanDates ==
    /\ pc = "schema"
    /\ missing_columns(df) = <<>>
    /\ df' = DatesCoerced(df)
    /\ LET rows_after_date_clean == Len(DatesCoerced(df).data)
       IN  warnings' = IF rows_after_date_clean < original_rows
                       THEN Append(warnings, original_rows - rows_after_date_clean)
                       ELSE warnings
    /\ pc' = "engagements"
    /\ UNCHANGED <<key, uploaded_file, original_rows, errors, cur,
                   views, computed, rendered, insights, requested, resolved,
                   exchanges, inflight, normVars>>

\* lines 64-67, 163-164
CleanEngagements ==
    /\ pc = "engagements"
    /\ df' = EngagementsCoerced(df)
    /\ pc' = "guard"
    /\ UNCHANGED <<key, uploaded_file, original_rows, errors, warnings, cur,
                   views, computed, rendered, insights, requested, resolved,
                   exchanges, inflight, normVars>>

\* lines 170-171
GuardEnter ==
    /\ pc = "guard"
    /\ GuardPasses(df)
    /\ pc' = "aggregate"
    /\ cur' = 1
    /\ UNCHANGED <<key, uploaded_file, df, original_rows, errors, warnings,
                   views, computed, rendered, insights, requested, resolved,
                   exchanges, inflight, normVars>>

\* lines 170, 307
GuardSkip ==
    /\ pc = "guard"
    /\ ~GuardPasses(df)
    /\ pc' = "done"
    /\ UNCHANGED <<key, uploaded_file, df, original_rows, errors, warnings, cur,
                   views, computed, rendered, insights, requested, resolved,
                   exchanges, inflight, normVars>>

\* lines 175-176, 204-205, 230-231, 255-256, 284-285
Aggregate ==
    /\ pc = "aggregate"
    /\ \E w \in ViewChoices(cur, df) : views' = [views EXCEPT ![cur] = w]
    /\ computed' = computed \cup {cur}
    /\ pc' = AfterAggregate
    /\ UNCHANGED <<key, uploaded_file, df, original_rows, errors, warnings, cur,
                   rendered, insights, requested, resolved,
                   exchanges, inflight, normVars>>

\* lines 177-194, 206-220, 232-245, 257-274, 286-299
Render ==
    /\ pc = "render"
    /\ rendered' = rendered \cup {cur}
    /\ pc' = "call"
    /\ UNCHANGED <<key, uploaded_file, df, original_rows, errors, warnings, cur,
                   views, computed, insights, requested, resolved,
                   exchanges, inflight, normVars>>

\* lines 197-198 (and the four like them), 71-72
CallUnconfigured ==
    /\ pc = "call"
    /\ ~KeyConfigured(key)
    /\ requested' = requested \cup {cur}
    /\ insights' = [insights EXCEPT ![cur] = ConfigWarning]
    /\ resolved' = resolved \cup {cur}
    /\ pc' = "display"
    /\ UNCHANGED <<key, uploaded_file, df, original_rows, errors, warnings, cur,
                   views, computed, rendered, exchanges, inflight, normVars>>

\* lines 197-198 (and the four like them), 71-90: requests.post is sent
CallPost ==
    /\ pc = "call"
    /\ KeyConfigured(key)
    /\ requested' = requested \cup {cur}
    /\ exchanges' = [exchanges EXCEPT ![cur] = @ + 1]
    /\ inflight' = cur
    /\ pc' = "await"
    /\ UNCHANGED <<key, uploaded_file, df, original_rows, errors, warnings, cur,
                   views, computed, rendered, insights, resolved, normVars>>

\* lines 90-102: the exchange ends and get_gemini_insight returns
Respond ==
    /\ pc = "await"
    /\ \E outcome \in Outcomes :
          /\ insights' = [insights EXCEPT ![cur] = InsightText(outcome)]
          /\ pc' = RespondTarget(outcome)
    /\ inflight' = 0
    /\ resolved' = resolved \cup {cur}
    /\ UNCHANGED <<key, uploaded_file, df, original_rows, errors, warnings, cur,
                   views, computed, rendered, requested, exchanges, normVars>>

\* lines 199-200 (and the four like them): the text is shown and the next
\* chart section begins; after the fifth the script runs to its end
Display ==
    /\ pc = "display"
    /\ IF cur < Cardinality(Sections)
       THEN pc' = "aggregate" /\ cur' = cur + 1
       ELSE pc' = "done" /\ cur' = 0
    /\ UNCHANGED <<key, uploaded_file, df, original_rows, errors, warnings,
                   views, computed, rendered, insights, requested, resolved,
                   exchanges, inflight, normVars>>

Next ==
    \/ StartNoFile
    \/ StartUpload
    \/ ReadCsvFail
    \/ ReadCsvOk
    \/ CleanNormalize
    \/ CleanMissing
    \/ CleanDates
    \/ CleanEngagements
    \/ GuardEnter
    \/ GuardSkip
    \/ Aggregate
    \/ Render
    \/ CallUnconfigured
    \/ CallPost
    \/ Respond
    \/ Display

(***************************************************************************)
(* The configurations and uploads the runs start from.                     *)
(***************************************************************************)
\* "" stands for an absent or empty credential: both are falsy at line 71.
Keys == {"", Placeholder, "AIza-configured"}

\* Header only.
T_empty == <<>>

\* Every date unparseable.
T_baddates ==
    << Row("not-a-date", "X", "positive", "A", "5", "Text"),
       Row("", "X", "negative", "B", "5", "Image") >>

T_dates ==
    << Row("2024-01-01", "X", "positive", "A", "5", "Text"),
       Row("not-a-date", "Y", "negative", "B", "5", "Image"),
       Row("2024-01-03", "X", "positive", "A", "5", "Text") >>

T_engagements ==
    << Row("2024-01-01", "X", "positive", "A", "5", "Text"),
       Row("2024-01-01 12:00", "Y", "negative", "B", "", "Image"),
       Row("2024-01-03", "X", "neutral", "A", "abc", ""),
       Row("2024-01-03", "", "", "", "-3", "Video") >>

Tables == {T_empty, T_baddates, T_dates, T_engagements}

BaseUploads ==
    {NoFile, Malformed}
    \cup {File(h, T_dates) : h \in Headers}
    \cup {File(DocHeader, t) : t \in Tables}
    \cup {Project(File(DocHeader, T_dates), keep) :
            keep \in (SUBSET (1..Len(DocHeader))) \ {{}, 1..Len(DocHeader)}}

BaseConfigs == Keys \X BaseUploads

PipeInit(configs) ==
    /\ \E c \in configs : key = c[1] /\ uploaded_file = c[2]
    /\ pc = "start"
    /\ df = None
    /\ original_rows = 0
    /\ errors = <<>>
    /\ warnings = <<>>
    /\ cur = 0
    /\ views = [v \in Sections |-> <<>>]
    /\ computed = {}
    /\ rendered = {}
    /\ insights = [v \in Sections |-> ""]
    /\ requested = {}
    /\ resolved = {}
    /\ exchanges = [v \in Sections |-> 0]
    /\ inflight = 0

NormIdle ==
    /\ nm_in = <<>>
    /\ nm_out = <<>>
    /\ nm_calls = 0

Init == PipeInit(BaseConfigs) /\ NormIdle

Spec == Init /\ [][Next]_vars

(***************************************************************************)
(* Runs over tables whose date and engagements cells vary: every table of  *)
(* at most MaxRows rows drawn from CleanRows.                              *)
(***************************************************************************)
DateTokens == {"2024-01-01", "2024-01-01 12:00", "2024-01-03", "not-a-date", ""}

EngagementTokens == {"5", "", "abc", "-3", "7.9", "-3.7"}

CleanRows ==
    {Row(d, "X", "positive", "A", "5", "Text") : d \in DateTokens}
    \cup {Row("2024-01-01", "Y", "negative", "B", e, "Image") : e \in EngagementTokens}
    \cup {Row("not-a-date", "Y", "negative", "B", "abc", "Image")}

CleanUploads == {File(DocHeader, t) : t \in SeqsUpTo(CleanRows, MaxRows)}

InitClean ==
    PipeInit(BaseConfigs \cup ({Placeholder} \X CleanUploads)) /\ NormIdle

SpecClean == InitClean /\ [][Next]_vars

(***************************************************************************)
(* Runs over tables whose locations vary: each of the first NLocs          *)
(* locations has no row, one row or two rows, and a row without a location *)
(* may follow.                                                             *)
(***************************************************************************)
LocNames == <<"A", "B", "C", "D", "E", "F", "G", "H">>

LocTokens == <<"10", "30", "20", "5", "25", "1", "15", "40">>

LocTable(rowsOf, unlocated) ==
    LET once == FilterSeq([i \in 1..NLocs |-> i], {i \in 1..NLocs : rowsOf[i] >= 1})
        twice == FilterSeq([i \in 1..NLocs |-> i], {i \in 1..NLocs : rowsOf[i] = 2})
    IN  [j \in 1..Len(once) |->
            Row("2024-01-01", "X", "positive", LocNames[once[j]], LocTokens[once[j]], "Text")]
        \o [j \in 1..Len(twice) |->
            Row("2024-01-03", "Y", "negative", LocNames[twice[j]], "5", "Image")]
        \o (IF unlocated THEN <<Row("2024-01-03", "Y", "neutral", "", "40", "Video")>>
            ELSE <<>>)

TopUploads ==
    {File(DocHeader, LocTable(rowsOf, unlocated)) :
        rowsOf \in [1..NLocs -> {0, 1, 2}], unlocated \in BOOLEAN}

InitTop ==
    PipeInit(BaseConfigs \cup ({Placeholder} \X TopUploads)) /\ NormIdle

SpecTop == InitTop /\ [][Next]_vars

(***************************************************************************)
(* normalize_column_name applied to a name, and again to its result.       *)
(***************************************************************************)
Alphabet == {"M", "m", "T", " ", "-", "_", "7", UpsilonHook}

\* line 26, called on the name and then on what the call before returned
NormalizeCall ==
    /\ nm_calls < 2
    /\ nm_out' = Append(nm_out,
                        normalize_column_name(IF nm_out = <<>> THEN nm_in
                                              ELSE nm_out[Len(nm_out)]))
    /\ nm_calls' = nm_calls + 1
    /\ UNCHANGED <<nm_in, pipeVars>>

InitNorm ==
    /\ PipeInit({<<Placeholder, NoFile>>})
    /\ nm_in \in SeqsUpTo(Alphabet, MaxNameLen)
    /\ nm_out = <<>>
    /\ nm_calls = 0

NextNorm == NormalizeCall

SpecNorm == InitNorm /\ [][NextNorm]_vars

(***************************************************************************)
(* Properties.                                                             *)
(***************************************************************************)
\* Positions of the script after clean_data has returned.
PostClean == {"guard", "aggregate", "render", "call", "await", "display", "done"}

\* The column of the uploaded file whose normalized name is `name`.
RawColumn(name) ==
    LET p == CHOOSE i \in 1..Len(uploaded_file.columns) :
                normalize_column_name(uploaded_file.columns[i]) = name
    IN  [i \in 1..Len(uploaded_file.data) |-> uploaded_file.data[i][p]]

\* The required names no normalized column name of the upload equals.
MissingIn(file) ==
    {c \in Range(expected_columns) :
        \A i \in 1..Len(file.columns) : normalize_column_name(file.columns[i]) # c}

\* C1: an upload whose normalized column names lack a required name ends in
\* the fatal failure that names exactly the missing required names, and the
\* script stops: no summary view is computed and no insight is requested.
C1_MissingColumnsStop ==
    (/\ uploaded_file.present
     /\ ~uploaded_file.malformed
     /\ MissingIn(uploaded_file) # {}
     /\ pc \notin {"start", "read", "clean", "schema"})
    => /\ pc = "stopped"
       /\ Len(errors) = 1
       /\ errors[1].kind = "missing_columns"
       /\ Range(errors[1].columns) = MissingIn(uploaded_file)
       /\ Len(errors[1].columns) = Cardinality(MissingIn(uploaded_file))
       /\ computed = {}
       /\ rendered = {}
       /\ requested = {}
       /\ \A v \in Sections : exchanges[v] = 0

C1_Witness ==
    /\ pc = "stopped"
    /\ key = "AIza-configured"
    /\ MissingIn(uploaded_file) = {c_platform, c_mediatype}
    /\ errors = <<MissingColumnsError(<<c_platform, c_mediatype>>)>>

\* C2: for an upload that cleans to a non-empty table, no outcome of an
\* insight exchange raises to the caller; the run ends with all five views
\* computed and all five insight texts produced, whichever exchanges failed,
\* and a section that has not returned yet has no text.
C2_InsightFailuresContained ==
    /\ pc # "crashed"
    /\ (pc = "done" /\ ~df.none /\ ~IsEmpty(df))
       => /\ computed = Sections
          /\ rendered = Sections
          /\ resolved = Sections
          /\ \A v \in Sections : insights[v] # ""
    /\ \A v \in Sections \ resolved : insights[v] = ""

C2_Witness ==
    /\ pc = "done"
    /\ computed = Sections
    /\ insights[1] = InsightText("request_exception")
    /\ insights[2] = InsightText("text")
    /\ insights[3] = InsightText("exception")
    /\ insights[4] = InsightText("no_candidates")
    /\ insights[5] = InsightText("text")

\* C3, as claimed: a cleaned table with zero rows gives five empty summary
\* views, the aggregation not being skipped.
C3_EmptyTableFiveViews ==
    (pc = "done" /\ ~df.none /\ Len(df.data) = 0)
    => /\ computed = Sections
       /\ \A v \in Sections : views[v] = <<>>

\* C3, amended: a cleaned table with zero rows is no failure, and the
\* aggregation is skipped: no summary view is computed, no chart is rendered
\* and no insight is requested.
C3_EmptyTableSkipsAggregation ==
    (pc \in PostClean /\ ~df.none /\ Len(df.data) = 0)
    => /\ pc \in {"guard", "done"}
       /\ errors = <<>>
       /\ computed = {}
       /\ rendered = {}
       /\ requested = {}

C3_Witness ==
    /\ pc = "done"
    /\ ~df.none
    /\ Len(df.data) = 0
    /\ original_rows = 2
    /\ warnings = <<2>>

\* C4: with an absent, empty or placeholder credential every call of
\* get_gemini_insight returns the configuration warning and no exchange is
\* sent; an exchange is sent only under a non-empty, non-placeholder
\* credential.
C4_NoExchangeWithoutCredential ==
    /\ (key = "" \/ key = "YOUR_GEMINI_API_KEY")
       => /\ inflight = 0
          /\ \A v \in Sections :
                /\ exchanges[v] = 0
                /\ v \in requested => (v \in resolved /\ insights[v] = ConfigWarning)
    /\ \A v \in Sections :
          exchanges[v] > 0 => (key # "" /\ key # "YOUR_GEMINI_API_KEY")

C4_Witness ==
    /\ key = "YOUR_GEMINI_API_KEY"
    /\ pc = "done"
    /\ resolved = Sections
    /\ \A v \in Sections : insights[v] = ConfigWarning /\ exchanges[v] = 0

\* The date cells that convert to a timestamp.
Parseable(cell) == cell \in {"2024-01-01", "2024-01-01 12:00", "2024-01-03"}

\* C5: the table clean_data returns is exactly the input rows whose date
\* parses, in their original order; the dropped count reported is the number of input
\* rows whose date does not parse (none is reported when none is dropped),
\* and original row count = dropped count + final row count.
C5_DateFiltering ==
    (pc \in {"engagements", "guard"} /\ ~df.none)
    => LET n == Len(uploaded_file.data)
           dates == RawColumn(c_date)
           good == {i \in 1..n : Parseable(dates[i])}
           dropped == n - Cardinality(good)
       IN  /\ df.index = FilterSeq([i \in 1..n |-> i - 1], {i - 1 : i \in good})
           /\ Len(df.data) = Len(df.index)
           /\ \A j \in 1..Len(df.data) :
                 \A c \in {c_platform, c_sentiment, c_location, c_mediatype} :
                    Column(df, c)[j] = RawColumn(c)[df.index[j] + 1]
           /\ original_rows = n
           /\ original_rows = dropped + Len(df.data)
           /\ warnings = IF dropped > 0 THEN <<dropped>> ELSE <<>>

C5_Witness ==
    /\ pc = "guard"
    /\ ~df.none
    /\ RawColumn(c_date) = <<"2024-01-01", "not-a-date", "2024-01-03">>
    /\ df.index = <<0, 2>>
    /\ warnings = <<1>>
    /\ original_rows = 3

\* The integer a number, given in tenths, truncates to.
Truncated(t) ==
    CHOOSE n \in -50..50 :
        \/ t >= 0 /\ 10 * n <= t /\ t < 10 * n + 10
        \/ t < 0 /\ 10 * n >= t /\ t > 10 * n - 10

\* What the claim gives for an engagements cell.
ClaimedEngagement(cell) ==
    IF cell = "" \/ \A l \in NumericLiterals : l.text # cell
    THEN 0
    ELSE Truncated((CHOOSE l \in NumericLiterals : l.text = cell).tenths)

\* C6: for every row of the table clean_data returns, the cleaned
\* engagements value is 0 when the raw cell is empty or not a number, and
\* the number truncated to an integer otherwise, negative numbers included;
\* "5", "", "abc", "-3" become 5, 0, 0, -3.
C6_EngagementCoercion ==
    (pc = "guard" /\ ~df.none)
    => /\ \A j \in 1..Len(df.data) :
             Column(df, c_engagements)[j]
                = ClaimedEngagement(RawColumn(c_engagements)[df.index[j] + 1])
       /\ ClaimedEngagement("-3") = -3
       /\ ClaimedEngagement("-3.7") = -3
       /\ ClaimedEngagement("7.9") = 7
       /\ uploaded_file.data = T_engagements
             => Column(df, c_engagements) = <<5, 0, 0, -3>>

C6_Witness ==
    /\ pc = "guard"
    /\ ~df.none
    /\ RawColumn(c_engagements) = <<"-3.7", "7.9", "abc">>
    /\ Column(df, c_engagements) = <<-3, 7, 0>>

\* The sum of engagements over the rows of location l.
LocSum(frame, l) ==
    SumCells(Column(frame, c_engagements),
             {i \in 1..Len(frame.data) : Column(frame, c_location)[i] = l})

Locations(frame) == Range(Column(frame, c_location)) \ {""}

ExampleLocations ==
    LocTable([i \in 1..NLocs |-> IF i <= 6 THEN 1 ELSE 0], FALSE)

ExampleTop ==
    << [key |-> "B", value |-> 30], [key |-> "E", value |-> 25],
       [key |-> "C", value |-> 20], [key |-> "A", value |-> 10],
       [key |-> "D", value |-> 5] >>

\* C7: the top-locations view has min(5, number of distinct locations)
\* entries, each the sum of engagements over the rows of its location, in
\* non-increasing order of the sums, and no location left out has a sum
\* greater than one in the view; sums A:10 B:30 C:20 D:5 E:25 F:1 give
\* B:30 E:25 C:20 A:10 D:5.
C7_TopLocations ==
    (5 \in computed)
    => LET v == views[5]
           locs == Locations(df)
           keys == {v[i].key : i \in 1..Len(v)}
       IN  /\ Len(v) = IF Cardinality(locs) < 5 THEN Cardinality(locs) ELSE 5
           /\ Cardinality(keys) = Len(v)
           /\ keys \subseteq locs
           /\ \A i \in 1..Len(v) : v[i].value = LocSum(df, v[i].key)
           /\ \A i \in 1..Len(v) : \A j \in 1..Len(v) :
                 i < j => v[i].value >= v[j].value
           /\ \A l \in locs \ keys : \A i \in 1..Len(v) : LocSum(df, l) <= v[i].value
           /\ uploaded_file.data = ExampleLocations => v = ExampleTop

C7_Witness ==
    /\ 5 \in computed
    /\ uploaded_file.data = ExampleLocations
    /\ Cardinality(Locations(df)) = 6
    /\ views[5] = ExampleTop

\* C8, as claimed: normalizing twice gives what normalizing once gives, and
\* the result holds no uppercase letter, space, hyphen or underscore.
C8_NormalizeNoUppercase ==
    /\ nm_calls = 2 => nm_out[2] = nm_out[1]
    /\ \A k \in 1..Len(nm_out) : \A c \in Range(nm_out[k]) :
          ~IsUpperChar(c) /\ c \notin {" ", "-", "_"}

\* C8, amended: normalizing twice gives what normalizing once gives, and the
\* result holds no space, hyphen or underscore and no letter A-Z; an
\* uppercase letter that has no lowercase form is kept.
C8_NormalizeIdempotent ==
    /\ nm_calls = 2 => nm_out[2] = nm_out[1]
    /\ \A k \in 1..Len(nm_out) : \A c \in Range(nm_out[k]) :
          c \notin Range(UpperAZ) \cup {" ", "-", "_"}
    /\ nm_calls >= 1 /\ UpsilonHook \in Range(nm_in)
          => UpsilonHook \in Range(nm_out[1])

C8_Witness ==
    /\ nm_calls = 2
    /\ nm_in = <<"M", "_", "T">>
    /\ nm_out = << <<"m", "t">>, <<"m", "t">> >>

\* C9, as claimed: all five summary views are aggregated before the first
\* insight request, and all five requests are resolved before any chart is
\* rendered.
C9_StagesRunWhole ==
    /\ requested # {} => computed = Sections
    /\ rendered # {} => resolved = Sections

\* C9, amended: reading, normalizing and cleaning are over before any view
\* is aggregated; then the chart sections run one after another, each
\* aggregating its view, rendering its chart and then requesting its
\* insight, and a section's view is aggregated only once the insight
\* requests of the sections before it are resolved.
C9_SectionOrder ==
    /\ pc \in {"start", "read", "clean", "schema", "engagements", "guard", "stopped"}
          => computed = {}
    /\ rendered \subseteq computed
    /\ requested \subseteq rendered
    /\ resolved \subseteq requested
    /\ \A v \in computed : \A u \in Sections : u < v => u \in resolved

C9_Witness ==
    /\ pc = "call"
    /\ cur = 2
    /\ computed = {1, 2}
    /\ rendered = {1, 2}
    /\ requested = {1}
    /\ resolved = {1}

\* C10: the insight requests are issued one at a time in the order of the
\* chart sections (sentiment breakdown, engagement trend, platform
\* engagements, media type mix, top locations), a request only after the one
\* before it has returned; a section causes at most one outbound exchange,
\* none is retried after a failure, and under a configured credential every
\* request makes its own exchange.
C10_SequentialSingleExchange ==
    /\ \A v \in requested : \A u \in Sections : u < v => u \in resolved
    /\ Cardinality(requested \ resolved) <= 1
    /\ inflight # 0 => requested \ resolved = {inflight}
    /\ \A v \in Sections :
          /\ exchanges[v] <= 1
          /\ exchanges[v] = 1 => v \in requested
          /\ (v \in requested /\ key = "AIza-configured") => exchanges[v] = 1

C10_Witness ==
    /\ pc = "done"
    /\ \A v \in Sections : exchanges[v] = 1
    /\ insights[2] = InsightText("request_exception")
    /\ insights[3] = InsightText("no_candidates")
    /\ insights[5] = InsightText("exception")

====
